---------------------------- MODULE Spec2Model ----------------------------
(***************************************************************************)
(* Model of the Soong glue for the prebuilt Rust toolchain:                *)
(*   - the prebuilt locator getPrebuilt and the load hooks that describe   *)
(*     the prebuilt sysroot libraries (two revisions of rustprebuilts.go:  *)
(*     src/soong/rustprebuilts.go and src/unnamed/part_000),               *)
(*   - the patch applier linux-x86/apply_patches.sh.                       *)
(* Go strings are TLA+ strings, except that a slash-separated path is the  *)
(* sequence of its components; a Go pointer is a sequence of length 0      *)
(* (nil) or 1 (the value pointed to); a Go slice is a sequence.            *)
(* A behaviour of Spec is the configuration of one module: the build host  *)
(* and the source tree are fixed, and the load hook of the module's type   *)
(* runs once.                                                              *)
(***************************************************************************)
EXTENDS Integers, Sequences, FiniteSets, TLC

VARIABLES
    pkg,        \* which revision of the package is compiled: "soong" | "unnamed"
    BuildOS,    \* ctx.Config().BuildOS
    env,        \* value of RUST_PREBUILTS_VERSION, "" when unset
    moduleDir,  \* ctx.ModuleDir()
    files,      \* the source tree: the set of file paths Glob can see
    call,       \* the last load hook / locator call made and its inputs
    ret,        \* what that call returned or appended to the module
    errors,     \* the module errors reported by ctx.ModuleErrorf, in order
    lookups,    \* the glob patterns handed to ctx.Glob, in order
    argv,       \* apply_patches.sh: the positional arguments
    words,      \* apply_patches.sh: the expansion of $PATCHES (0 = unexpanded)
    failing,    \* apply_patches.sh: the patch files the patch tool rejects
    pc,         \* apply_patches.sh: position in the script
    idx,        \* apply_patches.sh: next word of the for loop
    invoked,    \* apply_patches.sh: the patch files handed to the patch tool
    status,     \* apply_patches.sh: $? of the last command
    stdout      \* apply_patches.sh: the lines echoed

vars == <<pkg, BuildOS, env, moduleDir, files, call, ret, errors, lookups,
          argv, words, failing, pc, idx, invoked, status, stdout>>

goVars == <<pkg, BuildOS, env, moduleDir, files, call, ret, errors, lookups>>
shVars == <<argv, words, failing, pc, idx, invoked, status, stdout>>

(***************************************************************************)
(* Bounds of the model.                                                    *)
(***************************************************************************)
MaxPatches == 4
MaxSrcs == 2

(***************************************************************************)
(* Go's strings package.                                                   *)
(***************************************************************************)
HasPrefix(s, p) == Len(s) >= Len(p) /\ SubSeq(s, 1, Len(p)) = p

HasSuffix(s, p) == Len(s) >= Len(p) /\ SubSeq(s, Len(s) - Len(p) + 1, Len(s)) = p

TrimPrefix(s, p) == IF HasPrefix(s, p) THEN SubSeq(s, Len(p) + 1, Len(s)) ELSE s

TrimSuffix(s, p) == IF HasSuffix(s, p) THEN SubSeq(s, 1, Len(s) - Len(p)) ELSE s

Contains(s, sub) ==
    \E i \in 1..(Len(s) - Len(sub) + 1) : SubSeq(s, i, i + Len(sub) - 1) = sub

\* strings.Replace(s, old, "", -1) for a non-empty old: every non-overlapping
\* occurrence of old, scanning left to right, is removed.
RECURSIVE ReplaceAllWithEmpty(_, _)
ReplaceAllWithEmpty(s, old) ==
    IF Len(s) < Len(old) THEN s
    ELSE IF HasPrefix(s, old)
         THEN ReplaceAllWithEmpty(SubSeq(s, Len(old) + 1, Len(s)), old)
         ELSE SubSeq(s, 1, 1) \o ReplaceAllWithEmpty(SubSeq(s, 2, Len(s)), old)

(***************************************************************************)
(* Go's path package (path/filepath is the same on the build hosts).       *)
(* A slash-separated path is the sequence of its components: "a/b" is      *)
(* <<"a", "b">> and "" is <<>>. Soong's paths are relative to the top of   *)
(* the source tree, so no path is rooted.                                  *)
(***************************************************************************)
\* The path of a string that holds no slash.
Elem(s) == IF s = "" THEN <<>> ELSE <<s>>

\* The lexical processing of path.Clean on the components in turn: "" and "."
\* are dropped, ".." removes the component before it, or is kept when there is
\* none to remove.
RECURSIVE CleanParts(_, _)
CleanParts(parts, stack) ==
    IF Len(parts) = 0 THEN stack
    ELSE LET c == parts[1]
             rest == Tail(parts)
         IN IF c = "" \/ c = "." THEN CleanParts(rest, stack)
            ELSE IF c = ".." /\ Len(stack) > 0 /\ stack[Len(stack)] # ".."
                 THEN CleanParts(rest, SubSeq(stack, 1, Len(stack) - 1))
                 ELSE CleanParts(rest, Append(stack, c))

\* path.Clean: the empty result is ".".
Clean(p) == LET out == CleanParts(p, <<>>) IN IF out = <<>> THEN <<".">> ELSE out

RECURSIVE Concat(_)
Concat(elems) == IF Len(elems) = 0 THEN <<>> ELSE elems[1] \o Concat(Tail(elems))

\* path.Join: the non-empty elements joined by slashes, then cleaned; "" when
\* every element is empty.
Join(elems) == LET all == Concat(elems) IN IF all = <<>> THEN <<>> ELSE Clean(all)

\* Path.Base(): the last component of a file path.
Base(p) == p[Len(p)]

(***************************************************************************)
(* The Soong context: configuration, glob and module errors.               *)
(***************************************************************************)
Linux == "linux_glibc"
LinuxMusl == "linux_musl"
Darwin == "darwin"
Windows == "windows"

RustDefaultVersion == "1.73.0"

\* ctx.AConfig().GetenvWithDefault(key, def): the value of the variable, or
\* def when it is unset or empty.
GetenvWithDefault(value, def) == IF value = "" THEN def ELSE value

\* A file name against a pattern that holds a single "*".
NameMatch(pattern, name) ==
    LET star == CHOOSE k \in 1..Len(pattern) : SubSeq(pattern, k, k) = "*"
        pre == SubSeq(pattern, 1, star - 1)
        post == SubSeq(pattern, star + 1, Len(pattern))
    IN /\ Len(name) >= Len(pre) + Len(post)
       /\ HasPrefix(name, pre)
       /\ HasSuffix(name, post)

\* ctx.Glob for a pattern whose only "*" is in its last component: the files
\* of that directory whose name matches ("*" never stands for a slash).
Glob(fs, pattern) ==
    LET n == Len(pattern)
        dir == SubSeq(pattern, 1, n - 1)
    IN {f \in fs : /\ Len(f) = n
                   /\ SubSeq(f, 1, n - 1) = dir
                   /\ NameMatch(pattern[n], f[n])}

\* ctx.ModuleErrorf("Unexpected number of matches for prebuilt libraries at
\* path %q, found %d matches", globPath, len(libMatches))
ModuleError(globPath, n) == [pattern |-> globPath, count |-> n]

(***************************************************************************)
(* getPrebuilt: the module relative library path and the suffix hash.      *)
(***************************************************************************)
getRustPrebuiltVersion(envValue) == GetenvWithDefault(envValue, RustDefaultVersion)

getRustLibDir(envValue) ==
    Join(<<Elem(getRustPrebuiltVersion(envValue)), <<"lib">>, <<"rustlib">> >>)

\* path.Join(ctx.ModuleDir(), dir, lib) + "-*" + extension
GlobPath(modDir, dir, lib, extension) ==
    LET j == Join(<<modDir, dir, Elem(lib)>>)
    IN [j EXCEPT ![Len(j)] = @ \o "-*" \o extension]

\* A variant that only rejects the empty result of the glob.
UnexpectedMatchesOnlyZero(n) == n = 0

\* len(libMatches) != 1
UnexpectedMatches(n) == n # 1

\* A variant that removes the library name but not the hyphen.
SuffixOfKeepsHyphen(match, lib, extension) ==
    LET trimmed == TrimSuffix(Base(match), extension)
    IN SubSeq(trimmed, Len(lib) + 1, Len(trimmed))

\* The suffix of a unique match: the extension trimmed from the base, then the
\* library name and the hyphen removed.
SuffixOf(match, lib, extension) ==
    LET trimmed == TrimSuffix(Base(match), extension)
    IN SubSeq(trimmed, Len(lib) + 2, Len(trimmed))

\* strings.TrimPrefix(match.String(), ctx.ModuleDir()+"/")
RelPathOf(match, modDir) ==
    IF Len(match) > Len(modDir) /\ SubSeq(match, 1, Len(modDir)) = modDir
    THEN SubSeq(match, Len(modDir) + 1, Len(match))
    ELSE match

getPrebuilt(fs, modDir, dir, lib, extension) ==
    LET globPath == GlobPath(modDir, dir, lib, extension)
        libMatches == Glob(fs, globPath)
    IN IF UnexpectedMatches(Cardinality(libMatches))
       THEN [relPath |-> <<>>, suffix |-> "",
             errs |-> <<ModuleError(globPath, Cardinality(libMatches))>>,
             globs |-> <<globPath>>]
       ELSE LET m == CHOOSE f \in libMatches : TRUE
            IN [relPath |-> RelPathOf(m, modDir),
                suffix |-> SuffixOf(m, lib, extension),
                errs |-> <<>>,
                globs |-> <<globPath>>]

(***************************************************************************)
(* The property structs appended by the load hooks.                        *)
(***************************************************************************)
Nil == <<>>
BoolPtr(b) == <<b>>
StringPtr(s) == <<s>>

TargetNames ==
    {"Linux_glibc_x86_64", "Linux_glibc_x86", "Linux_musl_x86_64",
     "Linux_musl_x86", "Darwin_x86_64"}

\* The zero value of targetProps.
targetProps ==
    [Suffix |-> Nil, Dylib |-> [Srcs |-> <<>>], Rlib |-> [Srcs |-> <<>>],
     Link_dirs |-> <<>>, Enabled |-> Nil]

\* The zero value of props.
props == [Enabled |-> Nil, Target |-> [t \in TargetNames |-> targetProps]]

\* The zero value of ccTargetProps and of the struct of constructStaticLibProps.
ccTargetProps == [Enabled |-> Nil, Srcs |-> <<>>]

ccProps == [Enabled |-> Nil, Target |-> [t \in TargetNames |-> ccTargetProps]]

(***************************************************************************)
(* addPrebuiltToTarget                                                     *)
(***************************************************************************)
\* The extension of the dynamic library, src/unnamed/part_000.
soSuffix(platform) == IF Contains(platform, "darwin") THEN ".dylib" ELSE ".so"

\* The extension of the dynamic library, src/soong/rustprebuilts.go.
soSuffixSoong(platform) == ".so"

DylibExtension(rev, platform) ==
    IF rev = "unnamed" THEN soSuffix(platform) ELSE soSuffixSoong(platform)

\* A variant that returns as soon as the lookup of the rlib has failed.
addPrebuiltToTargetAborting(rev, target, fs, modDir, libName, rustDir, platform, arch, rlib, solib) ==
    LET dir == Join(<<Elem(platform), rustDir, Elem(arch), <<"lib">> >>)
        t1 == [target EXCEPT !.Link_dirs = <<dir>>, !.Enabled = BoolPtr(TRUE)]
        r == getPrebuilt(fs, modDir, dir, libName, ".rlib")
        t2 == IF rlib
              THEN [t1 EXCEPT !.Rlib.Srcs = <<r.relPath>>,
                              !.Suffix = StringPtr(r.suffix)]
              ELSE t1
        d == getPrebuilt(fs, modDir, dir, libName, DylibExtension(rev, platform))
        more == solib /\ ~(rlib /\ Len(r.errs) > 0)
        t3 == IF more
              THEN [t2 EXCEPT !.Dylib.Srcs = <<d.relPath>>,
                              !.Suffix = StringPtr(d.suffix)]
              ELSE t2
    IN [target |-> t3,
        errs |-> (IF rlib THEN r.errs ELSE <<>>) \o (IF more THEN d.errs ELSE <<>>),
        globs |-> (IF rlib THEN r.globs ELSE <<>>) \o (IF more THEN d.globs ELSE <<>>)]

\* A variant in which the dylib does not overwrite the suffix of the rlib.
addPrebuiltToTargetKeepsRlibSuffix(rev, target, fs, modDir, libName, rustDir, platform, arch, rlib, solib) ==
    LET dir == Join(<<Elem(platform), rustDir, Elem(arch), <<"lib">> >>)
        t1 == [target EXCEPT !.Link_dirs = <<dir>>, !.Enabled = BoolPtr(TRUE)]
        r == getPrebuilt(fs, modDir, dir, libName, ".rlib")
        t2 == IF rlib
              THEN [t1 EXCEPT !.Rlib.Srcs = <<r.relPath>>,
                              !.Suffix = StringPtr(r.suffix)]
              ELSE t1
        d == getPrebuilt(fs, modDir, dir, libName, DylibExtension(rev, platform))
        t3 == IF solib
              THEN [t2 EXCEPT !.Dylib.Srcs = <<d.relPath>>,
                              !.Suffix = IF rlib THEN @ ELSE StringPtr(d.suffix)]
              ELSE t2
    IN [target |-> t3,
        errs |-> (IF rlib THEN r.errs ELSE <<>>) \o (IF solib THEN d.errs ELSE <<>>),
        globs |-> (IF rlib THEN r.globs ELSE <<>>) \o (IF solib THEN d.globs ELSE <<>>)]

\* The target after the call, with the errors reported and the globs made.
addPrebuiltToTarget(rev, target, fs, modDir, libName, rustDir, platform, arch, rlib, solib) ==
    LET dir == Join(<<Elem(platform), rustDir, Elem(arch), <<"lib">> >>)
        t1 == [target EXCEPT !.Link_dirs = <<dir>>, !.Enabled = BoolPtr(TRUE)]
        r == getPrebuilt(fs, modDir, dir, libName, ".rlib")
        t2 == IF rlib
              THEN [t1 EXCEPT !.Rlib.Srcs = <<r.relPath>>,
                              !.Suffix = StringPtr(r.suffix)]
              ELSE t1
        d == getPrebuilt(fs, modDir, dir, libName, DylibExtension(rev, platform))
        t3 == IF solib
              THEN [t2 EXCEPT !.Dylib.Srcs = <<d.relPath>>,
                              !.Suffix = StringPtr(d.suffix)]
              ELSE t2
    IN [target |-> t3,
        errs |-> (IF rlib THEN r.errs ELSE <<>>) \o (IF solib THEN d.errs ELSE <<>>),
        globs |-> (IF rlib THEN r.globs ELSE <<>>) \o (IF solib THEN d.globs ELSE <<>>)]

(***************************************************************************)
(* constructLibProps                                                       *)
(***************************************************************************)
\* android.RemoveOptionalPrebuiltPrefix
RemoveOptionalPrebuiltPrefix(name) == TrimPrefix(name, "prebuilt_")

\* The library name the lib hooks search for.
LibName(moduleName) ==
    ReplaceAllWithEmpty(RemoveOptionalPrebuiltPrefix(moduleName), ".rust_sysroot")

\* A variant whose musl branch also tests for the glibc host.
HostTargetsMuslOnLinux(os) ==
    IF os = Linux
    THEN << <<"Linux_glibc_x86_64", "linux-x86", "x86_64-unknown-linux-gnu">>,
            <<"Linux_glibc_x86", "linux-x86", "i686-unknown-linux-gnu">>,
            <<"Linux_musl_x86_64", "linux-musl-x86", "x86_64-unknown-linux-musl">>,
            <<"Linux_musl_x86", "linux-musl-x86", "i686-unknown-linux-musl">> >>
    ELSE IF os = Darwin
    THEN << <<"Darwin_x86_64", "darwin-x86", "x86_64-apple-darwin">> >>
    ELSE << >>

\* The (target, platform, arch) calls made for a build host, in order.
HostTargets(os) ==
    IF os = Linux
    THEN << <<"Linux_glibc_x86_64", "linux-x86", "x86_64-unknown-linux-gnu">>,
            <<"Linux_glibc_x86", "linux-x86", "i686-unknown-linux-gnu">> >>
    ELSE IF os = LinuxMusl
    THEN << <<"Linux_musl_x86_64", "linux-musl-x86", "x86_64-unknown-linux-musl">>,
            <<"Linux_musl_x86", "linux-musl-x86", "i686-unknown-linux-musl">> >>
    ELSE IF os = Darwin
    THEN << <<"Darwin_x86_64", "darwin-x86", "x86_64-apple-darwin">> >>
    ELSE << >>

\* The calls of addPrebuiltToTarget applied in order to the struct p.
RECURSIVE AddTargets(_, _, _, _, _, _, _, _, _)
AddTargets(rev, acc, todo, fs, modDir, name, rustDir, rlib, solib) ==
    IF Len(todo) = 0 THEN acc
    ELSE LET t == todo[1]
             a == addPrebuiltToTarget(rev, acc.p.Target[t[1]], fs, modDir, name,
                                      rustDir, t[2], t[3], rlib, solib)
         IN AddTargets(rev,
                       [p |-> [acc.p EXCEPT !.Target[t[1]] = a.target],
                        errs |-> acc.errs \o a.errs,
                        globs |-> acc.globs \o a.globs],
                       Tail(todo), fs, modDir, name, rustDir, rlib, solib)

constructLibProps(rev, rlib, solib, fs, modDir, moduleName, envValue, os) ==
    LET rustDir == getRustLibDir(envValue)
        name == LibName(moduleName)
        p == [props EXCEPT !.Enabled = BoolPtr(FALSE)]
    IN AddTargets(rev, [p |-> p, errs |-> <<>>, globs |-> <<>>], HostTargets(os),
                  fs, modDir, name, rustDir, rlib, solib)

(***************************************************************************)
(* constructStaticLibProps (src/soong/rustprebuilts.go)                    *)
(***************************************************************************)
StaticLibName(moduleName) ==
    ReplaceAllWithEmpty(RemoveOptionalPrebuiltPrefix(moduleName), ".rust_sysroot_static")

\* The closure addPrebuiltToTarget of constructStaticLibProps.
addStaticPrebuiltToTarget(rustDir, name, platform, arch) ==
    [Enabled |-> BoolPtr(TRUE),
     Srcs |-> <<Join(<<Elem(platform), rustDir, Elem(arch), <<"lib">>,
                       Elem(name \o ".a")>>)>>]

constructStaticLibProps(moduleName, envValue, os) ==
    LET rustDir == getRustLibDir(envValue)
        name == StaticLibName(moduleName)
        p == [ccProps EXCEPT !.Enabled = BoolPtr(FALSE)]
        todo == HostTargets(os)
        hit(t) == {i \in 1..Len(todo) : todo[i][1] = t}
    IN [p EXCEPT !.Target =
            [t \in TargetNames |->
                IF hit(t) = {} THEN p.Target[t]
                ELSE LET i == CHOOSE k \in hit(t) : TRUE
                     IN addStaticPrebuiltToTarget(rustDir, name, todo[i][2], todo[i][3])]]

(***************************************************************************)
(* rustToolchainFilegroupFactory's load hook (src/unnamed/part_000)        *)
(***************************************************************************)
\* config.HostPrebuiltTag, of Soong's rust/config package: one directory tag
\* per build host, used here as an opaque name.
HostPrebuiltTag(os) ==
    IF os = Linux THEN "linux-x86"
    ELSE IF os = LinuxMusl THEN "linux-musl-x86"
    ELSE IF os = Darwin THEN "darwin-x86"
    ELSE "windows-x86"

\* A variant that keeps the first triple assigned for the host.
archTripleFirstAssigned(os) ==
    IF os = Linux THEN "x86_64-unknown-linux-gnu"
    ELSE IF os = LinuxMusl THEN "x86_64-unknown-linux-musl"
    ELSE IF os = Darwin THEN "x86_64-apple-darwin"
    ELSE ""

\* The value of archTriple after the chain of assignments.
archTriple(os) ==
    IF os = Linux THEN "i686-unknown-linux-gnu"
    ELSE IF os = LinuxMusl THEN "i686-unknown-linux-musl"
    ELSE IF os = Darwin THEN "x86_64-apple-darwin"
    ELSE ""

\* rust.GetRustPrebuiltVersion is read as getRustPrebuiltVersion.
ToolchainPrefix(envValue, os) ==
    Join(<<Elem(HostPrebuiltTag(os)), Elem(getRustPrebuiltVersion(envValue)),
           <<"lib">>, <<"rustlib">>, Elem(archTriple(os))>>)

toolchainFilegroupHook(toolchainSrcs, envValue, os) ==
    LET prefix == ToolchainPrefix(envValue, os)
    IN [Srcs |-> [i \in 1..Len(toolchainSrcs) |-> Join(<<prefix, toolchainSrcs[i]>>)]]


(***************************************************************************)
(* The inputs: build hosts, toolchain versions, module names, source trees *)
(***************************************************************************)
\* Windows stands for a build host that matches none of the branches on
\* ctx.Config().BuildOS.
BuildHosts == {Linux, LinuxMusl, Darwin, Windows}

EnvValues == {"", "1.80.1"}

Versions == {getRustPrebuiltVersion(e) : e \in EnvValues}

ModuleDirs == {<<"prebuilts", "rust">>, <<".">>}

LibModuleNames ==
    {"libstd", "prebuilt_libstd", "libstd.rust_sysroot",
     "prebuilt_libstd.rust_sysroot", "libstd.rust_sysroot.rust_sysroot"}

StaticModuleNames ==
    {"libstd", "prebuilt_libstd.rust_sysroot_static",
     "libstd.rust_sysroot_static.rust_sysroot_static"}

ToolchainSrcs ==
    {<<"lib", "libstd.rlib">>, <<"lib", "self-contained", "crt1.o">>,
     <<"..", "etc", "lldb_commands">>}

SeqsUpTo(S, n) == UNION {[1..k -> S] : k \in 0..n}

\* The library files a lib directory of the prebuilts may hold.
LibFiles ==
    {"libstd-abc123.rlib", "libstd-abc123.so", "libstd-def456.so", "libstd-abc123.dylib"}

AllTargets == HostTargets(Linux) \o HostTargets(LinuxMusl) \o HostTargets(Darwin)

Is64(arch) == HasPrefix(arch, "x86_64")

\* The tree with layout l64 in every 64-bit lib directory and l32 in every
\* 32-bit one, for every toolchain version.
Tree(modDir, l64, l32) ==
    UNION {
        {Join(<<modDir, <<AllTargets[i][2], v, "lib", "rustlib", AllTargets[i][3], "lib", b>> >>) :
            b \in (IF Is64(AllTargets[i][3]) THEN l64 ELSE l32)}
        : i \in 1..Len(AllTargets), v \in Versions}

NoCall == [op |-> "none"]

ShIdle ==
    /\ argv = <<>>
    /\ words = <<>>
    /\ failing = {}
    /\ pc = "off"
    /\ idx = 0
    /\ invoked = <<>>
    /\ status = 0
    /\ stdout = <<>>

(***************************************************************************)
(* Spec: the load hooks of the module types                                *)
(***************************************************************************)
Init ==
    /\ pkg \in {"soong", "unnamed"}
    /\ BuildOS \in BuildHosts
    /\ env \in EnvValues
    /\ moduleDir \in ModuleDirs
    /\ \E l64 \in SUBSET LibFiles : \E l32 \in {l64, {}} :
           files = Tree(moduleDir, l64, l32)
    /\ call = NoCall
    /\ ret = NoCall
    /\ errors = <<>>
    /\ lookups = <<>>
    /\ ShIdle

\* The module types whose factory adds the load hook constructLibProps(rlib,
\* solib), in each revision.
LibraryFactories(rev) ==
    {[op |-> "rust_stdlib_prebuilt_host", rlib |-> TRUE, solib |-> TRUE]}
    \cup (IF rev = "soong"
          THEN {[op |-> "rust_stdlib_prebuilt_rlib_host", rlib |-> TRUE, solib |-> FALSE]}
          ELSE {})

\* The load hook of rust_stdlib_prebuilt_host and rust_stdlib_prebuilt_rlib_host.
LibraryLoadHook ==
    /\ call = NoCall
    /\ \E f \in LibraryFactories(pkg), name \in LibModuleNames :
         \E r \in {constructLibProps(pkg, f.rlib, f.solib, files, moduleDir, name,
                                     env, BuildOS)} :
           /\ call' = [op |-> f.op, moduleName |-> name, rlib |-> f.rlib,
                       solib |-> f.solib]
           /\ ret' = [appended |-> r.p, libName |-> LibName(name)]
           /\ errors' = r.errs
           /\ lookups' = r.globs
    /\ UNCHANGED <<pkg, BuildOS, env, moduleDir, files, shVars>>

\* The load hook of rust_stdlib_prebuilt_static_lib_host.
StaticLibLoadHook ==
    /\ pkg = "soong"
    /\ call = NoCall
    /\ \E name \in StaticModuleNames :
           /\ call' = [op |-> "rust_stdlib_prebuilt_static_lib_host", moduleName |-> name]
           /\ ret' = [appended |-> constructStaticLibProps(name, env, BuildOS),
                      libName |-> StaticLibName(name)]
           /\ errors' = <<>>
           /\ lookups' = <<>>
    /\ UNCHANGED <<pkg, BuildOS, env, moduleDir, files, shVars>>

\* The load hook of rust_stdlib_prebuilt_filegroup_host.
FilegroupLoadHook ==
    /\ pkg = "unnamed"
    /\ call = NoCall
    /\ \E srcs \in SeqsUpTo(ToolchainSrcs, MaxSrcs) :
           /\ call' = [op |-> "rust_stdlib_prebuilt_filegroup_host", Toolchain_srcs |-> srcs]
           /\ ret' = [appended |-> toolchainFilegroupHook(srcs, env, BuildOS)]
           /\ errors' = <<>>
           /\ lookups' = <<>>
    /\ UNCHANGED <<pkg, BuildOS, env, moduleDir, files, shVars>>

Next ==
    \/ LibraryLoadHook
    \/ StaticLibLoadHook
    \/ FilegroupLoadHook

Spec == Init /\ [][Next]_vars

(***************************************************************************)
(* SpecLocator: getPrebuilt on its own                                     *)
(***************************************************************************)
LocatorDir == <<"linux-x86", "1.73.0", "lib">>

LocatorFiles ==
    {<<"liba-h1.rlib">>, <<"liba-h2.rlib">>, <<"liba-.rlib">>, <<"liba-b-h1.rlib">>,
     <<"liba-h1.so">>, <<"libab-h1.rlib">>, <<"liba-x", "y.rlib">>}

LocatorLibs == {"liba", "liba-b", "libab"}

LocatorExtensions == {".rlib", ".so"}

InitLocator ==
    /\ pkg \in {"soong", "unnamed"}
    /\ BuildOS = Linux
    /\ env = ""
    /\ moduleDir \in ModuleDirs
    /\ \E chosen \in SUBSET LocatorFiles :
           files = {Join(<<moduleDir, LocatorDir, b>>) : b \in chosen}
    /\ call = NoCall
    /\ ret = NoCall
    /\ errors = <<>>
    /\ lookups = <<>>
    /\ ShIdle

CallGetPrebuilt ==
    /\ call = NoCall
    /\ \E lib \in LocatorLibs, extension \in LocatorExtensions :
        LET r == getPrebuilt(files, moduleDir, LocatorDir, lib, extension)
        IN /\ call' = [op |-> "getPrebuilt", dir |-> LocatorDir, lib |-> lib,
                       extension |-> extension]
           /\ ret' = [relPath |-> r.relPath, suffix |-> r.suffix]
           /\ errors' = r.errs
           /\ lookups' = r.globs
           /\ UNCHANGED <<pkg, BuildOS, env, moduleDir, files, shVars>>

NextLocator == CallGetPrebuilt

SpecLocator == InitLocator /\ [][NextLocator]_vars

(***************************************************************************)
(* SpecPatch: linux-x86/apply_patches.sh                                   *)
(***************************************************************************)
\* The expansion of patches/* : the patch files in sort order (file k is the
\* k-th in that order), or the unexpanded pattern (0) when nothing matches.
ExpandPatches(n) == IF n = 0 THEN <<0>> ELSE [i \in 1..n |-> i]

InitPatch ==
    /\ pkg = "soong"
    /\ BuildOS = Linux
    /\ env = ""
    /\ moduleDir = <<".">>
    /\ files = {}
    /\ call = NoCall
    /\ ret = NoCall
    /\ errors = <<>>
    /\ lookups = <<>>
    /\ argv \in {<<>>, <<"1.46.0">>}
    /\ \E n \in 0..MaxPatches :
           /\ words = ExpandPatches(n)
           /\ failing \in SUBSET (1..n)
    /\ pc = "start"
    /\ idx = 1
    /\ invoked = <<>>
    /\ status = 0
    /\ stdout = <<>>

\* A variant of the test that takes one argument for none.
NoArgumentsOffByOne(args) == Len(args) = 1

\* [ $# -eq 0 ]
NoArguments(args) == Len(args) = 0

\* $1: empty when the script has no argument.
Arg1(args) == IF Len(args) >= 1 THEN args[1] ELSE ""

\* Lines 7-13: the usage exit, or the banner before the loop.
CheckArguments ==
    /\ pc = "start"
    /\ IF NoArguments(argv)
       THEN /\ stdout' = stdout \o <<"Usage", "Example">>
            /\ status' = 1
            /\ pc' = "exit"
       ELSE /\ stdout' = Append(stdout, <<"Applying patches to", Arg1(argv)>>)
            /\ status' = 0
            /\ pc' = "loop"
    /\ UNCHANGED <<argv, words, failing, idx, invoked, goVars>>

\* Lines 14-18: one iteration of the loop. The unexpanded pattern names no
\* file: the redirection fails and the patch tool is not started.
ApplyPatch ==
    /\ pc = "loop"
    /\ idx <= Len(words)
    /\ LET patch == words[idx]
       IN /\ stdout' = Append(stdout, <<"----- Applying", patch>>)
          /\ IF patch = 0
             THEN /\ invoked' = invoked
                  /\ status' = 1
             ELSE /\ invoked' = Append(invoked, patch)
                  /\ status' = IF patch \in failing THEN 1 ELSE 0
    /\ idx' = idx + 1
    /\ UNCHANGED <<argv, words, failing, pc, goVars>>

\* The end of the script: it exits with the status of the last command.
EndOfScript ==
    /\ pc = "loop"
    /\ idx > Len(words)
    /\ pc' = "exit"
    /\ UNCHANGED <<argv, words, failing, idx, invoked, status, stdout, goVars>>

NextPatch ==
    \/ CheckArguments
    \/ ApplyPatch
    \/ EndOfScript

SpecPatch == InitPatch /\ [][NextPatch]_vars


(***************************************************************************)
(* Properties of the locator                                               *)
(***************************************************************************)
\* The files of directory <modDir>/<dir> named <lib>-<anything><extension>.
Matching(fs, modDir, dir, lib, extension) ==
    LET d == Join(<<modDir, dir>>)
    IN {f \in fs : /\ Len(f) = Len(d) + 1
                   /\ SubSeq(f, 1, Len(d)) = d
                   /\ \E n \in 0..Len(f[Len(f)]) :
                        /\ Len(f[Len(f)]) = Len(lib) + 1 + n + Len(extension)
                        /\ SubSeq(f[Len(f)], 1, Len(lib) + 1) = lib \o "-"
                        /\ SubSeq(f[Len(f)], Len(lib) + 2 + n, Len(f[Len(f)])) = extension}

\* The pattern <modDir>/<dir>/<lib>-*<extension>.
PatternOf(modDir, dir, lib, extension) ==
    Join(<<modDir, dir>>) \o <<lib \o "-*" \o extension>>

CallMatches == Matching(files, moduleDir, call.dir, call.lib, call.extension)

\* C1: when exactly one file matches <moduleDir>/<dir>/<lib>-*<ext>, getPrebuilt
\* reports no error and returns that file's path without the leading
\* <moduleDir>/ and, as suffix, the text of the base name between <lib>- and
\* <ext>.
C1_UniqueMatch ==
    (call.op = "getPrebuilt" /\ Cardinality(CallMatches) = 1) =>
        /\ errors = <<>>
        /\ \A f \in CallMatches :
             /\ IF Len(f) > Len(moduleDir) /\ SubSeq(f, 1, Len(moduleDir)) = moduleDir
                THEN moduleDir \o ret.relPath = f
                ELSE ret.relPath = f
             /\ f[Len(f)] = call.lib \o "-" \o ret.suffix \o call.extension

C1_Witness ==
    /\ call.op = "getPrebuilt"
    /\ Cardinality(CallMatches) = 1
    /\ moduleDir = <<"prebuilts", "rust">>
    /\ Cardinality(files) > 2
    /\ ret.relPath = <<"linux-x86", "1.73.0", "lib", "liba-h1.rlib">>
    /\ ret.suffix = "h1"

\* C2: when the number of files matching <moduleDir>/<dir>/<lib>-*<ext> is not
\* 1, getPrebuilt reports exactly one module error, naming the pattern and the
\* number of matches, and returns the empty path and the empty suffix.
C2_NotUnique ==
    (call.op = "getPrebuilt" /\ Cardinality(CallMatches) # 1) =>
        /\ errors = <<[pattern |-> PatternOf(moduleDir, call.dir, call.lib, call.extension),
                       count |-> Cardinality(CallMatches)]>>
        /\ ret.relPath = <<>>
        /\ ret.suffix = ""

C2_Witness ==
    /\ call.op = "getPrebuilt"
    /\ Cardinality(CallMatches) = 2
    /\ Len(errors) = 1
    /\ errors[1].count = 2
    /\ ret.relPath = <<>>


(***************************************************************************)
(* Properties of the load hooks                                            *)
(***************************************************************************)
IsLibHook == call.op \in {"rust_stdlib_prebuilt_host", "rust_stdlib_prebuilt_rlib_host"}

IsStaticHook == call.op = "rust_stdlib_prebuilt_static_lib_host"

IsFilegroupHook == call.op = "rust_stdlib_prebuilt_filegroup_host"

\* The property records of the platform family of a build host, in the order
\* 64-bit, 32-bit.
FamilyOf(os) ==
    CASE os = Linux -> <<"Linux_glibc_x86_64", "Linux_glibc_x86">>
      [] os = LinuxMusl -> <<"Linux_musl_x86_64", "Linux_musl_x86">>
      [] os = Darwin -> <<"Darwin_x86_64">>
      [] OTHER -> <<>>

FamilySet(os) == {FamilyOf(os)[i] : i \in 1..Len(FamilyOf(os))}

ExpectedVersion == IF env # "" THEN env ELSE RustDefaultVersion

\* <platform-family>/<toolchain-version>/lib/rustlib/<architecture-triple>/lib
ExpectedLibDir(t) ==
    CASE t = "Linux_glibc_x86_64" ->
            <<"linux-x86", ExpectedVersion, "lib", "rustlib", "x86_64-unknown-linux-gnu", "lib">>
      [] t = "Linux_glibc_x86" ->
            <<"linux-x86", ExpectedVersion, "lib", "rustlib", "i686-unknown-linux-gnu", "lib">>
      [] t = "Linux_musl_x86_64" ->
            <<"linux-musl-x86", ExpectedVersion, "lib", "rustlib", "x86_64-unknown-linux-musl", "lib">>
      [] t = "Linux_musl_x86" ->
            <<"linux-musl-x86", ExpectedVersion, "lib", "rustlib", "i686-unknown-linux-musl", "lib">>
      [] t = "Darwin_x86_64" ->
            <<"darwin-x86", ExpectedVersion, "lib", "rustlib", "x86_64-apple-darwin", "lib">>

MatchCount(g) == Cardinality(Glob(files, g))

LookupFailed(g) == MatchCount(g) # 1

KindsRequested == (IF call.rlib THEN 1 ELSE 0) + (IF call.solib THEN 1 ELSE 0)

FailedLookups == SelectSeq(lookups, LookupFailed)

\* C3 (as claimed): a lookup whose match count is not 1 aborts the enrichment:
\* no later lookup is made and no record that is enabled or carries source
\* paths or a suffix is appended.
C3_AbortOnFailedLookup ==
    (IsLibHook /\ Len(errors) > 0) =>
        /\ \A i \in 1..(Len(lookups) - 1) : ~LookupFailed(lookups[i])
        /\ \A t \in TargetNames :
             /\ ret.appended.Target[t].Enabled # BoolPtr(TRUE)
             /\ ret.appended.Target[t].Rlib.Srcs = <<>>
             /\ ret.appended.Target[t].Dylib.Srcs = <<>>
             /\ ret.appended.Target[t].Suffix = Nil

\* C3 (amended): a lookup whose match count is not 1 reports one module error
\* naming its pattern and count and yields the empty path and suffix, and the
\* hook goes on: every lookup of the host's targets is still made, in order,
\* one error is reported per failed lookup, and every target of the host is
\* appended enabled, with one source path per requested kind (the empty path
\* for a failed lookup).
C3_NoAbortOnFailedLookup ==
    IsLibHook =>
        /\ Len(lookups) = Len(FamilyOf(BuildOS)) * KindsRequested
        /\ errors = [i \in 1..Len(FailedLookups) |->
                        [pattern |-> FailedLookups[i], count |-> MatchCount(FailedLookups[i])]]
        /\ \A k \in 1..Len(FamilyOf(BuildOS)) :
             LET rec == ret.appended.Target[FamilyOf(BuildOS)[k]]
                 first == (k - 1) * KindsRequested + 1
             IN /\ rec.Enabled = BoolPtr(TRUE)
                /\ Len(rec.Suffix) = 1
                /\ call.rlib =>
                     /\ Len(rec.Rlib.Srcs) = 1
                     /\ LookupFailed(lookups[first]) => rec.Rlib.Srcs = << <<>> >>
                /\ call.solib =>
                     /\ Len(rec.Dylib.Srcs) = 1
                     /\ LookupFailed(lookups[first + KindsRequested - 1]) =>
                            /\ rec.Dylib.Srcs = << <<>> >>
                            /\ rec.Suffix = StringPtr("")

C3_Witness ==
    /\ IsLibHook
    /\ BuildOS = Linux
    /\ call.rlib /\ call.solib
    /\ Len(lookups) = 4
    /\ Len(errors) = 2
    /\ errors[1].pattern = lookups[1]
    /\ errors[2].pattern = lookups[3]
    /\ ret.appended.Target["Linux_glibc_x86_64"].Enabled = BoolPtr(TRUE)
    /\ ret.appended.Target["Linux_glibc_x86_64"].Rlib.Srcs = << <<>> >>
    /\ ret.appended.Target["Linux_glibc_x86_64"].Dylib.Srcs # << <<>> >>

\* C4: the load hooks constructLibProps and constructStaticLibProps populate
\* only the records of the platform family of the build host; every other
\* record stays at its zero value under the top-level Enabled = false, and
\* every glob is made in a lib directory of the host's family (none at all on
\* a host that is not Linux-glibc, Linux-musl or Darwin).
C4_HostOnly ==
    (IsLibHook \/ IsStaticHook) =>
        /\ ret.appended.Enabled = BoolPtr(FALSE)
        /\ \A t \in TargetNames \ FamilySet(BuildOS) :
             ret.appended.Target[t] = (IF IsLibHook THEN targetProps ELSE ccTargetProps)
        /\ \A t \in FamilySet(BuildOS) : ret.appended.Target[t].Enabled = BoolPtr(TRUE)
        /\ \A i \in 1..Len(lookups) :
             \E t \in FamilySet(BuildOS) :
                SubSeq(lookups[i], 1, Len(lookups[i]) - 1)
                    = Join(<<moduleDir, ExpectedLibDir(t)>>)
        /\ BuildOS \notin {Linux, LinuxMusl, Darwin} => (lookups = <<>> /\ errors = <<>>)
        /\ IsStaticHook => lookups = <<>>

C4_Witness ==
    /\ IsLibHook
    /\ BuildOS = LinuxMusl
    /\ Len(lookups) = 4
    /\ errors = <<>>
    /\ ret.appended.Target["Linux_musl_x86"].Enabled = BoolPtr(TRUE)
    /\ ret.appended.Target["Linux_glibc_x86_64"] = targetProps
    /\ ret.appended.Target["Darwin_x86_64"].Enabled = Nil

\* C5: every lookup of a dynamic library is made with the extension .dylib on
\* the Darwin family and .so on the others.
C5_DylibExtension ==
    (IsLibHook /\ call.solib) =>
        \A i \in 1..Len(lookups) :
            LET name == lookups[i][Len(lookups[i])]
            IN \/ HasSuffix(name, "-*.rlib")
               \/ HasSuffix(name, IF BuildOS = Darwin THEN "-*.dylib" ELSE "-*.so")

\* The declared name without one "prebuilt_" prefix and one trailing token.
StripOnce(name, token) ==
    LET a == IF HasPrefix(name, "prebuilt_")
             THEN SubSeq(name, Len("prebuilt_") + 1, Len(name))
             ELSE name
    IN IF HasSuffix(a, token) THEN SubSeq(a, 1, Len(a) - Len(token)) ELSE a

\* C6: the library name used for discovery is the declared module name with
\* exactly one "prebuilt_" prefix and exactly one trailing suffix token
\* removed (.rust_sysroot for the library types, .rust_sysroot_static for the
\* static library type), and nothing else.
C6_Normalization ==
    /\ IsLibHook => ret.libName = StripOnce(call.moduleName, ".rust_sysroot")
    /\ IsStaticHook => ret.libName = StripOnce(call.moduleName, ".rust_sysroot_static")

GlibcDir == ExpectedLibDir("Linux_glibc_x86_64")

GlibcRlibs == Matching(files, moduleDir, GlibcDir, ret.libName, ".rlib")

GlibcSos == Matching(files, moduleDir, GlibcDir, ret.libName, ".so")

\* The record of Linux_glibc_x86_64 describes the rlib r and the dylib s.
GlibcRecordDescribes(r, s) ==
    LET rec == ret.appended.Target["Linux_glibc_x86_64"]
    IN /\ rec.Enabled = BoolPtr(TRUE)
       /\ rec.Link_dirs = <<GlibcDir>>
       /\ rec.Rlib.Srcs = <<GlibcDir \o <<r[Len(r)]>> >>
       /\ rec.Dylib.Srcs = <<GlibcDir \o <<s[Len(s)]>> >>
       /\ Len(rec.Suffix) = 1
       /\ s[Len(s)] = ret.libName \o "-" \o rec.Suffix[1] \o ".so"

\* C7 (as claimed): on a Linux-glibc host, with exactly one B-H.rlib and one
\* B-H.so in the x86_64 lib directory of the toolchain version, the record of
\* Linux_glibc_x86_64 is enabled and describes them with suffix H, and all
\* other platform entries are disabled.
C7_EndToEndOthersDisabled ==
    (/\ call.op = "rust_stdlib_prebuilt_host"
     /\ BuildOS = Linux
     /\ Cardinality(GlibcRlibs) = 1
     /\ Cardinality(GlibcSos) = 1
     /\ \A r \in GlibcRlibs, s \in GlibcSos :
            TrimSuffix(r[Len(r)], ".rlib") = TrimSuffix(s[Len(s)], ".so")) =>
        /\ \A r \in GlibcRlibs, s \in GlibcSos : GlibcRecordDescribes(r, s)
        /\ \A t \in TargetNames \ {"Linux_glibc_x86_64"} :
             ret.appended.Target[t].Enabled # BoolPtr(TRUE)

\* C7 (amended): on a Linux-glibc host, with exactly one B-*.rlib and one
\* B-*.so in the x86_64 lib directory of the toolchain version (the override
\* if set, else the default), the record of Linux_glibc_x86_64 is enabled and
\* describes them, its suffix being that of the dylib; the record of
\* Linux_glibc_x86 is enabled too, and the records of the other platform
\* families (Linux-musl, Darwin) are left disabled at their zero value.
C7_EndToEnd ==
    (/\ call.op = "rust_stdlib_prebuilt_host"
     /\ BuildOS = Linux
     /\ Cardinality(GlibcRlibs) = 1
     /\ Cardinality(GlibcSos) = 1) =>
        /\ \A r \in GlibcRlibs, s \in GlibcSos : GlibcRecordDescribes(r, s)
        /\ ret.appended.Enabled = BoolPtr(FALSE)
        /\ ret.appended.Target["Linux_glibc_x86"].Enabled = BoolPtr(TRUE)
        /\ \A t \in {"Linux_musl_x86_64", "Linux_musl_x86", "Darwin_x86_64"} :
             ret.appended.Target[t] = targetProps

C7_Witness ==
    /\ call.op = "rust_stdlib_prebuilt_host"
    /\ BuildOS = Linux
    /\ env = "1.80.1"
    /\ moduleDir = <<"prebuilts", "rust">>
    /\ Cardinality(GlibcRlibs) = 1
    /\ Cardinality(GlibcSos) = 1
    /\ ret.appended.Target["Linux_glibc_x86_64"].Rlib.Srcs =
         << <<"linux-x86", "1.80.1", "lib", "rustlib", "x86_64-unknown-linux-gnu", "lib",
              "libstd-abc123.rlib">> >>
    /\ ret.appended.Target["Linux_glibc_x86_64"].Dylib.Srcs =
         << <<"linux-x86", "1.80.1", "lib", "rustlib", "x86_64-unknown-linux-gnu", "lib",
              "libstd-def456.so">> >>
    /\ ret.appended.Target["Linux_glibc_x86_64"].Suffix = StringPtr("def456")

ExpectedTriple ==
    CASE BuildOS = Linux -> <<"i686-unknown-linux-gnu">>
      [] BuildOS = LinuxMusl -> <<"i686-unknown-linux-musl">>
      [] BuildOS = Darwin -> <<"x86_64-apple-darwin">>
      [] OTHER -> <<>>

ExpectedPrefix ==
    <<HostPrebuiltTag(BuildOS), ExpectedVersion, "lib", "rustlib">> \o ExpectedTriple

\* C10: the Srcs appended by the toolchain filegroup hook have the length and
\* order of Toolchain_srcs, each entry being the corresponding entry joined
\* onto <host-prebuilt-tag>/<toolchain-version>/lib/rustlib/<triple>, with the
\* triple assigned last for the build host (empty on any other host); the
\* x86_64 Linux triples are never used.
C10_FilegroupSrcs ==
    IsFilegroupHook =>
        /\ Len(ret.appended.Srcs) = Len(call.Toolchain_srcs)
        /\ \A i \in 1..Len(call.Toolchain_srcs) :
             /\ ret.appended.Srcs[i] = Join(<<ExpectedPrefix, call.Toolchain_srcs[i]>>)
             /\ \A j \in 1..Len(ret.appended.Srcs[i]) :
                  ret.appended.Srcs[i][j] \notin
                      {"x86_64-unknown-linux-gnu", "x86_64-unknown-linux-musl"}

C10_Witness ==
    /\ IsFilegroupHook
    /\ BuildOS = Linux
    /\ env = ""
    /\ Len(call.Toolchain_srcs) = 2
    /\ ret.appended.Srcs =
         << <<"linux-x86", "1.73.0", "lib", "rustlib", "i686-unknown-linux-gnu", "lib",
              "libstd.rlib">>,
            <<"linux-x86", "1.73.0", "lib", "rustlib", "i686-unknown-linux-gnu", "lib",
              "self-contained", "crt1.o">> >>

(***************************************************************************)
(* Properties of apply_patches.sh                                          *)
(***************************************************************************)
\* C8: the patches are applied one at a time in sort order, and once the
\* application of a patch has failed no later patch is attempted.
C8_AbortOnFailedPatch ==
    /\ \A i, j \in 1..Len(invoked) : i < j => invoked[i] < invoked[j]
    /\ \A i \in 1..(Len(invoked) - 1) : invoked[i] \notin failing

\* C9: without a positional argument the script prints the usage message and
\* exits with status 1 without reaching the loop: the patch tool is never
\* invoked, whatever patches/ holds.
C9_NoArgument ==
    Len(argv) = 0 =>
        /\ invoked = <<>>
        /\ pc # "loop"
        /\ pc = "exit" => (status = 1 /\ stdout = <<"Usage", "Example">>)

C9_Witness ==
    /\ Len(argv) = 0
    /\ pc = "exit"
    /\ Len(words) = 3
    /\ words[1] # 0
    /\ failing = {}
    /\ status = 1

=============================================================================
